---- MODULE Spec2Model ----
(***************************************************************************)
(* State-machine model of opensearch_dsl.update_by_query.UpdateByQuery.     *)
(*                                                                         *)
(* Python objects live on a heap so that aliasing is observable:           *)
(*   builders : UpdateByQuery instances (fields are references)            *)
(*   proxies  : QueryProxy objects (owner reference + held query)          *)
(*   dicts    : mutable dict objects (script mappings and extras)          *)
(*   inputs   : caller-owned wire mappings handed to from_dict             *)
(* transport holds the collaborator calls made by the latest execute(),    *)
(* history and lastOp record how builders were derived and the last call.  *)
(* Query objects are immutable values; their wire (dict) form is a         *)
(* different representation, produced by QToDict and parsed by Q.          *)
(***************************************************************************)
EXTENDS Integers, Sequences, FiniteSets, TLC

VARIABLES builders, proxies, dicts, inputs, transport, history, lastOp

vars == <<builders, proxies, dicts, inputs, transport, history, lastOp>>

\* ---------------------------------------------------------------- bounds
\* builders alive in the specification of every operation (Spec)
MaxBuilders == 2
\* builders alive in the specification of the builder-making operations (SpecChain)
MaxChain == 3
\* builders alive in the specification of operations among several builders (SpecShare)
MaxShare == 3

\* ------------------------------------------------------- small input sets
Terms == {"published", "archived"}
ScriptKwargs ==
    { [k \in {} |-> ""], [k \in {"source"} |-> "x"], [k \in {"lang"} |-> "painless"] }
ResponseClasses == {"CustomResponse"}
Replies == {"reply"}
Errors == {"TransportError"}
ToDictKwargs == { [k \in {"conflicts"} |-> "abort"] }

\* ------------------------------------------------------------ dict helpers
EmptyDict == [k \in {} |-> ""]

\* dict.update(e): keys of e win
DictUpdate(d, e) ==
    [k \in (DOMAIN d) \cup (DOMAIN e) |-> IF k \in DOMAIN e THEN e[k] ELSE d[k]]

\* a mapping without the keys in ks (the effect of successive pop calls)
DictWithout(d, ks) == [k \in (DOMAIN d) \ ks |-> d[k]]

\* ------------------------------------------------------------ query values
\* The unset proxy (Python None), distinct from every query object.
None == [kind |-> "none"]
MatchAll == [kind |-> "match_all"]
Term(f) == [kind |-> "term", field |-> f]
Bool(m, f, n) == [kind |-> "bool", must |-> m, filter |-> f, must_not |-> n]
ClauseNames == {"must", "filter", "must_not"}

\* wire (serialized) forms
WMatchAll == [w |-> "match_all"]
WTerm(f) == [w |-> "term", field |-> f]
WBool(c) == [w |-> "bool", clauses |-> c]

\* Query.to_dict: a bool node serializes only its non-empty clauses
RECURSIVE QToDict(_)
QToDict(q) ==
    IF q.kind = "match_all" THEN WMatchAll
    ELSE IF q.kind = "term" THEN WTerm(q.field)
    ELSE WBool([c \in {x \in ClauseNames : q[x] /= <<>>} |->
                  [i \in 1..Len(q[c]) |-> QToDict(q[c][i])]])

\* Q(dict): parse a serialized query into a query object
RECURSIVE Q(_)
Q(w) ==
    IF w.w = "match_all" THEN MatchAll
    ELSE IF w.w = "term" THEN Term(w.field)
    ELSE LET cl(c) == IF c \in DOMAIN w.clauses
                      THEN [i \in 1..Len(w.clauses[c]) |-> Q(w.clauses[c][i])]
                      ELSE <<>>
         IN Bool(cl("must"), cl("filter"), cl("must_not"))

\* Bool(filter=[q])
wrap_as_filter(q) == Bool(<<>>, <<q>>, <<>>)

\* ~q
negate(a) ==
    IF a.kind = "bool" /\ a.must = <<>> /\ a.filter = <<>> /\ Len(a.must_not) = 1
    THEN a.must_not[1]
    ELSE Bool(<<>>, <<>>, <<a>>)

\* a & b on query objects.  A bool node on the left takes the clauses of a
\* bool operand and appends any other operand (a match_all included) to its
\* must clause; match_all on the left gives the other operand; a leaf on the
\* left hands over to the right operand's reflected form.
RECURSIVE combine(_, _)
combine(a, b) ==
    IF a.kind = "bool"
    THEN IF b.kind = "bool"
         THEN Bool(a.must \o b.must, a.filter \o b.filter, a.must_not \o b.must_not)
         ELSE Bool(Append(a.must, b), a.filter, a.must_not)
    ELSE IF a.kind = "match_all" THEN b
    ELSE IF b.kind = "bool" THEN combine(b, a)
    ELSE IF b.kind = "match_all" THEN a
    ELSE Bool(<<a, b>>, <<>>, <<>>)

\* the query objects handed to ubq.query(...)
QueryArgs == { MatchAll, Term("published"), Bool(<<Term("archived")>>, <<>>, <<>>) }

\* ------------------------------------------------------------------- heap
Heap == [b |-> builders, p |-> proxies, d |-> dicts, in |-> inputs]
HeapNext == [b |-> builders', p |-> proxies', d |-> dicts', in |-> inputs']

NoResponse == [set |-> FALSE]
Response(cls, search, raw) == [set |-> TRUE, cls |-> cls, search |-> search, raw |-> raw]

\* UpdateByQuery(): a fresh instance with its own script dict, extras dict
\* and query proxy bound to the new instance.
new_builder(H) ==
    LET bid == Len(H.b) + 1
        sid == Len(H.d) + 1
        eid == Len(H.d) + 2
        pid == Len(H.p) + 1
    IN [H EXCEPT
          !.d = Append(Append(@, EmptyDict), EmptyDict),
          !.p = Append(@, [search |-> bid, proxied |-> None]),
          !.b = Append(@, [script |-> sid, extra |-> eid, query_proxy |-> pid,
                           response_class |-> "UpdateByQueryResponse",
                           response |-> NoResponse])]

\* Request._clone: a new instance of the same class with a copy of _extra
request_clone(H, self) ==
    LET H1 == new_builder(H)
        ubq == Len(H1.b)
        xid == Len(H1.d) + 1
    IN [H1 EXCEPT !.d = Append(@, H.d[H.b[self].extra]),
                  !.b[ubq].extra = xid]

\* mutant: the clone keeps the receiver's script dict instead of a copy
clone_shares_script(H, self) ==
    LET H1 == request_clone(H, self)
        ubq == Len(H1.b)
    IN [H1 EXCEPT
          !.b[ubq].response_class = H.b[self].response_class,
          !.b[ubq].script = H.b[self].script,
          !.p[H1.b[ubq].query_proxy].proxied = H.p[H.b[self].query_proxy].proxied]

\* mutant: the clone keeps the receiver's query proxy object
clone_shares_proxy(H, self) ==
    LET H1 == request_clone(H, self)
        ubq == Len(H1.b)
        cid == Len(H1.d) + 1
    IN [H1 EXCEPT
          !.b[ubq].response_class = H.b[self].response_class,
          !.d = Append(@, H.d[H.b[self].script]),
          !.b[ubq].script = cid,
          !.b[ubq].query_proxy = H.b[self].query_proxy]

\* UpdateByQuery._clone
_clone(H, self) ==
    LET H1 == request_clone(H, self)
        ubq == Len(H1.b)
        cid == Len(H1.d) + 1
    IN [H1 EXCEPT
          !.b[ubq].response_class = H.b[self].response_class,
          !.d = Append(@, H.d[H.b[self].script]),
          !.b[ubq].script = cid,
          !.p[H1.b[ubq].query_proxy].proxied = H.p[H.b[self].query_proxy].proxied]

\* QueryProxy.__bool__: the proxy is truthy once a query has been set
proxy_bool(H, pid) == H.p[pid].proxied /= None

\* QueryProxy.__call__(q): clone the owning builder; the clone's proxy takes q
\* when it holds no query, and the held query combined with q otherwise
proxy_call(H, pid, q) ==
    LET H1 == _clone(H, H.p[pid].search)
        s == Len(H1.b)
        sp == H1.b[s].query_proxy
    IN [H1 EXCEPT !.p[sp].proxied =
                     IF @ = None THEN q ELSE combine(@, q)]

\* self.query(q): the descriptor returns the builder's proxy, which is called
query_call(H, self, q) == proxy_call(H, H.b[self].query_proxy, q)

\* self.query = q: the descriptor stores q in the builder's own proxy, in place
query_set(H, self, q) == [H EXCEPT !.p[H.b[self].query_proxy].proxied = q]

\* mutant: the term is added as a must clause
filter_as_must(H, self, t) == query_call(H, self, Bool(<<Term(t)>>, <<>>, <<>>))

\* UpdateByQuery.filter(t)
filter(H, self, t) == query_call(H, self, wrap_as_filter(Term(t)))

\* mutant: exclude forgets the negation
exclude_not_negated(H, self, t) == query_call(H, self, wrap_as_filter(Term(t)))

\* UpdateByQuery.exclude(t)
exclude(H, self, t) == query_call(H, self, wrap_as_filter(negate(Term(t))))

\* UpdateByQuery.response_class(cls)
response_class(H, self, cls) ==
    LET H1 == _clone(H, self)
    IN [H1 EXCEPT !.b[Len(H1.b)].response_class = cls]

\* mutant: script merges into the previous mapping
script_merges(H, self, kwargs) ==
    LET H1 == _clone(H, self)
        ubq == Len(H1.b)
    IN [H1 EXCEPT !.d[H1.b[ubq].script] = DictUpdate(@, kwargs)]

\* UpdateByQuery.script(**kwargs)
script(H, self, kwargs) ==
    LET H1 == _clone(H, self)
        ubq == Len(H1.b)
        H2 == IF DOMAIN H1.d[H1.b[ubq].script] /= {}
              THEN [H1 EXCEPT !.d = Append(@, EmptyDict),
                              !.b[ubq].script = Len(H1.d) + 1]
              ELSE H1
    IN [H2 EXCEPT !.d[H2.b[ubq].script] = DictUpdate(@, kwargs)]

\* recursive_to_dict on a mapping of plain values
recursive_to_dict(d) == d

\* mutant: the extras are left out of the body
to_dict_drops_extra(H, self, kwargs) ==
    LET b == H.b[self]
        d1 == IF proxy_bool(H, b.query_proxy)
              THEN [k \in {"query"} |-> QToDict(H.p[b.query_proxy].proxied)]
              ELSE EmptyDict
        d2 == IF DOMAIN H.d[b.script] /= {}
              THEN DictUpdate(d1, [k \in {"script"} |-> H.d[b.script]])
              ELSE d1
    IN DictUpdate(d2, recursive_to_dict(kwargs))

\* mutant: the script entry is written even when the mapping is empty
to_dict_always_script(H, self, kwargs) ==
    LET b == H.b[self]
        d1 == IF proxy_bool(H, b.query_proxy)
              THEN [k \in {"query"} |-> QToDict(H.p[b.query_proxy].proxied)]
              ELSE EmptyDict
        d2 == DictUpdate(d1, [k \in {"script"} |-> H.d[b.script]])
        d3 == DictUpdate(d2, recursive_to_dict(H.d[b.extra]))
    IN DictUpdate(d3, recursive_to_dict(kwargs))

\* UpdateByQuery.to_dict(**kwargs)
to_dict(H, self, kwargs) ==
    LET b == H.b[self]
        d1 == IF proxy_bool(H, b.query_proxy)
              THEN [k \in {"query"} |-> QToDict(H.p[b.query_proxy].proxied)]
              ELSE EmptyDict
        d2 == IF DOMAIN H.d[b.script] /= {}
              THEN DictUpdate(d1, [k \in {"script"} |-> H.d[b.script]])
              ELSE d1
        d3 == DictUpdate(d2, recursive_to_dict(H.d[b.extra]))
    IN DictUpdate(d3, recursive_to_dict(kwargs))

\* mutant: the keys are popped from the caller's mapping, not from a copy
update_from_dict_no_copy(H, self, i) ==
    LET d == H.in[i]
        b == H.b[self]
        H1 == IF "query" \in DOMAIN d
              THEN [H EXCEPT !.p[b.query_proxy].proxied = Q(d["query"])]
              ELSE H
        H2 == IF "script" \in DOMAIN d
              THEN [H1 EXCEPT !.b[self].script = d["script"]]
              ELSE H1
        rest == DictWithout(d, {"query", "script"})
    IN [H2 EXCEPT !.d[b.extra] = DictUpdate(@, rest), !.in[i] = rest]

\* UpdateByQuery.update_from_dict(d), d being the caller's mapping inputs[i]
update_from_dict(H, self, i) ==
    LET d == H.in[i]
        b == H.b[self]
        H1 == IF "query" \in DOMAIN d
              THEN [H EXCEPT !.p[b.query_proxy].proxied = Q(d["query"])]
              ELSE H
        H2 == IF "script" \in DOMAIN d
              THEN [H1 EXCEPT !.b[self].script = d["script"]]
              ELSE H1
        rest == DictWithout(d, {"query", "script"})
    IN [H2 EXCEPT !.d[b.extra] = DictUpdate(@, rest)]

\* UpdateByQuery.from_dict(d)
from_dict(H, i) ==
    LET H1 == new_builder(H)
    IN update_from_dict(H1, Len(H1.b), i)

\* the transport collaborator's log for one execute(): nothing called yet
NoCalls == [calls |-> 0, outcome |-> "none"]

\* the transport collaborator: one update_by_query call with a given outcome
update_by_query(T, body, outcome) == [calls |-> T.calls + 1, outcome |-> outcome.val]

\* mutant: a failed call is retried once
execute_retries(H, T, self, outcome) ==
    LET b == H.b[self]
        T1 == update_by_query(T, to_dict(H, self, EmptyDict), outcome)
    IN IF outcome.ok
       THEN [H |-> [H EXCEPT !.b[self].response =
                               Response(b.response_class, self, outcome.val)],
             T |-> T1, raised |-> "none"]
       ELSE [H |-> H, T |-> update_by_query(T1, to_dict(H, self, EmptyDict), outcome),
             raised |-> outcome.val]

\* mutant: the cached response is dropped before the transport call
execute_clears_cache(H, T, self, outcome) ==
    LET b == H.b[self]
        T1 == update_by_query(T, to_dict(H, self, EmptyDict), outcome)
    IN IF outcome.ok
       THEN [H |-> [H EXCEPT !.b[self].response =
                               Response(b.response_class, self, outcome.val)],
             T |-> T1, raised |-> "none"]
       ELSE [H |-> [H EXCEPT !.b[self].response = NoResponse],
             T |-> T1, raised |-> outcome.val]

\* UpdateByQuery.execute(): the response is assigned only after the transport
\* call and the wrapper construction have returned
execute(H, T, self, outcome) ==
    LET b == H.b[self]
        T1 == update_by_query(T, to_dict(H, self, EmptyDict), outcome)
    IN IF outcome.ok
       THEN [H |-> [H EXCEPT !.b[self].response =
                               Response(b.response_class, self, outcome.val)],
             T |-> T1, raised |-> "none"]
       ELSE [H |-> H, T |-> T1, raised |-> outcome.val]

\* the query held by a proxy, or the empty marker when none is set
proxy_get(H, pid) == IF H.p[pid].proxied = None THEN MatchAll ELSE H.p[pid].proxied

\* what a builder holds: query (compared by serialized form, as the query
\* objects' equality does), script mapping and extras
view(H, self) ==
    LET b == H.b[self]
        q == H.p[b.query_proxy].proxied
    IN [has_query |-> q /= None,
        query |-> IF q = None THEN WMatchAll ELSE QToDict(q),
        script |-> H.d[b.script],
        extra |-> H.d[b.extra]]

\* ------------------------------------------------------------ wire inputs
W_empty == EmptyDict
W_scenario ==
    [k \in {"query", "script"} |->
        IF k = "query" THEN WMatchAll ELSE [x \in {"source"} |-> "x"]]
W_empty_script == [k \in {"script"} |-> EmptyDict]
W_filter_extra ==
    [k \in {"query", "size"} |->
        IF k = "query" THEN WBool([c \in {"filter"} |-> <<WTerm("archived")>>]) ELSE "10"]
W_full ==
    [k \in {"query", "script", "size"} |->
        IF k = "query" THEN WTerm("published")
        ELSE IF k = "script" THEN [x \in {"lang"} |-> "painless"] ELSE "10"]
W_must == [k \in {"query"} |-> WBool([c \in {"must"} |-> <<WTerm("published")>>])]
W_empty_clause == [k \in {"query"} |-> WBool([c \in {"filter"} |-> <<>>])]

\* the wire mappings handed to from_dict / update_from_dict
WireMappings ==
    {W_empty, W_scenario, W_empty_script, W_filter_extra, W_full, W_must, W_empty_clause}
ExecWireMappings == {W_full}

\* the caller builds a mapping: its script sub-mapping is a dict object of its own
with_input(H, w) ==
    IF "script" \in DOMAIN w
    THEN [H EXCEPT !.d = Append(@, w["script"]),
                   !.in = Append(@, [k \in DOMAIN w |->
                                       IF k = "script" THEN Len(H.d) + 1 ELSE w[k]])]
    ELSE [H EXCEPT !.in = Append(@, w)]

\* the value of the caller's mapping inputs[i]
input_value(H, i) ==
    [k \in DOMAIN H.in[i] |-> IF k = "script" THEN H.d[H.in[i][k]] ELSE H.in[i][k]]

\* ------------------------------------------------------------ state machine
EmptyHeap == [b |-> <<>>, p |-> <<>>, d |-> <<>>, in |-> <<>>]

NoOp == [op |-> "none", self |-> 0, ret |-> 0, term |-> "", q |-> None, kw |-> EmptyDict,
         inp |-> 0, raised |-> "none"]

SetHeap(H) ==
    /\ builders' = H.b
    /\ proxies' = H.p
    /\ dicts' = H.d
    /\ inputs' = H.in

\* the caller holds one wire mapping; nothing has been constructed yet
InitWith(wires) ==
    \E w \in wires :
        LET H == with_input(EmptyHeap, w)
        IN /\ builders = H.b
           /\ proxies = H.p
           /\ dicts = H.d
           /\ inputs = H.in
           /\ transport = NoCalls
           /\ history = <<>>
           /\ lastOp = NoOp

Ids == 1..Len(builders)
Outcomes == { [ok |-> TRUE, val |-> r] : r \in Replies }
            \cup { [ok |-> FALSE, val |-> e] : e \in Errors }

\* history[b]: how builder b was derived (bookkeeping for the properties):
\* whether its query comes from an empty builder through filter/exclude calls
\* only, the filter/exclude calls in order since the builder's chain started
\* or was last changed in place, and the builder it was cloned from (0 if none)
Fresh(empty) == [from_empty |-> empty, calls |-> <<>>, parent |-> 0]

Construct(max) ==
    /\ Len(builders) < max
    /\ SetHeap(new_builder(Heap))
    /\ history' = Append(history, Fresh(TRUE))
    /\ lastOp' = [NoOp EXCEPT !.op = "new", !.ret = Len(builders) + 1]
    /\ UNCHANGED transport

FromDict(max) ==
    \E i \in 1..Len(inputs) :
        /\ Len(builders) < max
        /\ SetHeap(from_dict(Heap, i))
        /\ history' = Append(history, Fresh(FALSE))
        /\ lastOp' = [NoOp EXCEPT !.op = "from_dict", !.ret = Len(builders) + 1, !.inp = i]
        /\ UNCHANGED transport

UpdateFromDict ==
    \E self \in Ids, i \in 1..Len(inputs) :
        /\ SetHeap(update_from_dict(Heap, self, i))
        /\ history' = [history EXCEPT ![self].from_empty = FALSE, ![self].calls = <<>>]
        /\ lastOp' = [NoOp EXCEPT !.op = "update_from_dict", !.self = self,
                                  !.ret = self, !.inp = i]
        /\ UNCHANGED transport

Filter(max, terms) ==
    \E self \in Ids, t \in terms :
        /\ Len(builders) < max
        /\ SetHeap(filter(Heap, self, t))
        /\ history' = Append(history, [history[self] EXCEPT
                                         !.calls = Append(@, <<"filter", t>>),
                                         !.parent = self])
        /\ lastOp' = [NoOp EXCEPT !.op = "filter", !.self = self,
                                  !.ret = Len(builders) + 1, !.term = t]
        /\ UNCHANGED transport

Exclude(max, terms) ==
    \E self \in Ids, t \in terms :
        /\ Len(builders) < max
        /\ SetHeap(exclude(Heap, self, t))
        /\ history' = Append(history, [history[self] EXCEPT
                                         !.calls = Append(@, <<"exclude", t>>),
                                         !.parent = self])
        /\ lastOp' = [NoOp EXCEPT !.op = "exclude", !.self = self,
                                  !.ret = Len(builders) + 1, !.term = t]
        /\ UNCHANGED transport

Script(max, kwargs) ==
    \E self \in Ids, kw \in kwargs :
        /\ Len(builders) < max
        /\ SetHeap(script(Heap, self, kw))
        /\ history' = Append(history, [history[self] EXCEPT !.parent = self])
        /\ lastOp' = [NoOp EXCEPT !.op = "script", !.self = self,
                                  !.ret = Len(builders) + 1, !.kw = kw]
        /\ UNCHANGED transport

ResponseClass(max) ==
    \E self \in Ids, cls \in ResponseClasses :
        /\ Len(builders) < max
        /\ SetHeap(response_class(Heap, self, cls))
        /\ history' = Append(history, [history[self] EXCEPT !.parent = self])
        /\ lastOp' = [NoOp EXCEPT !.op = "response_class", !.self = self,
                                  !.ret = Len(builders) + 1]
        /\ UNCHANGED transport

\* ubq.query(q) with any query object q
Query(max, queries) ==
    \E self \in Ids, q \in queries :
        /\ Len(builders) < max
        /\ SetHeap(query_call(Heap, self, q))
        /\ history' = Append(history, [history[self] EXCEPT
                                         !.from_empty = FALSE, !.parent = self])
        /\ lastOp' = [NoOp EXCEPT !.op = "query", !.self = self,
                                  !.ret = Len(builders) + 1, !.q = q]
        /\ UNCHANGED transport

\* ubq.query = q
QuerySet(queries) ==
    \E self \in Ids, q \in queries :
        /\ SetHeap(query_set(Heap, self, q))
        /\ history' = [history EXCEPT ![self].from_empty = FALSE, ![self].calls = <<>>]
        /\ lastOp' = [NoOp EXCEPT !.op = "query_set", !.self = self,
                                  !.ret = self, !.q = q]
        /\ UNCHANGED transport

\* to_dict builds a new mapping and changes nothing
ToDict ==
    \E self \in Ids, kw \in ToDictKwargs :
        /\ DOMAIN kw \subseteq DOMAIN to_dict(Heap, self, kw)
        /\ lastOp' = [NoOp EXCEPT !.op = "to_dict", !.self = self, !.kw = kw]
        /\ UNCHANGED <<builders, proxies, dicts, inputs, transport, history>>

Execute ==
    \E self \in Ids, outcome \in Outcomes :
        /\ LET r == execute(Heap, NoCalls, self, outcome)
           IN /\ SetHeap(r.H)
              /\ transport' = r.T
              /\ lastOp' = [NoOp EXCEPT !.op = "execute", !.self = self,
                                        !.raised = r.raised]
        /\ UNCHANGED history

\* every operation of the class, on few builders
Init == InitWith(ExecWireMappings)

Next ==
    \/ Construct(MaxBuilders)
    \/ FromDict(MaxBuilders)
    \/ UpdateFromDict
    \/ Filter(MaxBuilders, {"published"})
    \/ Exclude(MaxBuilders, {"archived"})
    \/ Script(MaxBuilders, {[k \in {"source"} |-> "x"]})
    \/ ResponseClass(MaxBuilders)
    \/ Query(MaxBuilders, {MatchAll})
    \/ QuerySet({Term("published")})
    \/ ToDict
    \/ Execute

Spec == Init /\ [][Next]_vars

\* the operations that make builders (constructor, from_dict, mutators), on
\* longer chains and with every input of the sets above
InitChain == InitWith(WireMappings)

NextChain ==
    \/ Construct(MaxChain)
    \/ FromDict(MaxChain)
    \/ Filter(MaxChain, Terms)
    \/ Exclude(MaxChain, Terms)
    \/ Script(MaxChain, ScriptKwargs)
    \/ ResponseClass(MaxChain)
    \/ Query(MaxChain, QueryArgs)

SpecChain == InitChain /\ [][NextChain]_vars

\* the mutators and the in-place operations while other builders exist: two
\* builders loaded from the caller's one mapping, a parent with clones, and
\* an empty builder, changed in place and cloned in every order
InitShare == InitWith({W_full})

NextShare ==
    \/ Construct(MaxShare)
    \/ FromDict(MaxShare)
    \/ UpdateFromDict
    \/ Filter(MaxShare, {"published"})
    \/ Exclude(MaxShare, {"archived"})
    \/ Script(MaxShare, {[k \in {"source"} |-> "x"]})
    \/ ResponseClass(MaxShare)
    \/ QuerySet({Term("archived")})

SpecShare == InitShare /\ [][NextShare]_vars

\* ----------------------------------------------------------------- claims
Mutators == {"filter", "exclude", "script", "response_class"}
Body(H, self) == to_dict(H, self, EmptyDict)
ScriptOf(H, self) == H.d[H.b[self].script]
ExtraOf(H, self) == H.d[H.b[self].extra]

\* C1: a mutator returns an instance that did not exist before, distinct from
\* the receiver, and the receiver's to_dict() is the same after the call
C1_CloningLaw ==
    [][lastOp'.op \in Mutators =>
          /\ lastOp'.ret \notin Ids
          /\ lastOp'.ret \in 1..Len(builders')
          /\ lastOp'.ret /= lastOp'.self
          /\ Body(HeapNext, lastOp'.self) = Body(Heap, lastOp'.self)]_vars

C1_Witness ==
    /\ lastOp.op = "script"
    /\ {"query", "script", "size"} \subseteq DOMAIN Body(Heap, lastOp.self)
    /\ ScriptOf(Heap, lastOp.ret) /= ScriptOf(Heap, lastOp.self)

\* C2: from_dict(b.to_dict()) holds the same query, script mapping and extras as b
C2_RoundTrip ==
    \A b \in Ids :
        LET H1 == with_input(Heap, Body(Heap, b))
            H2 == from_dict(H1, Len(H1.in))
        IN view(H2, Len(H2.b)) = view(Heap, b)

C2_Witness ==
    \E b \in Ids :
        /\ Len(history[b].calls) = 2
        /\ view(Heap, b).has_query
        /\ view(Heap, b).script /= EmptyDict
        /\ view(Heap, b).extra /= EmptyDict

\* C3: an operation leaves the query, script mapping and extras of every builder
\* other than its receiver unchanged (the receiver's parent, its clones and the
\* builders loaded from the same mapping included), and each builder's query
\* proxy is bound to that builder
ProxyBound(H) == \A b \in 1..Len(H.b) : H.p[H.b[b].query_proxy].search = b
C3_NoInterference ==
    [][/\ \A b \in Ids : b /= lastOp'.self => view(HeapNext, b) = view(Heap, b)
       /\ ProxyBound(HeapNext)]_vars

\* two builders loaded from the same mapping (they hold the caller's script
\* dict), one of them changed in place and then cloned by a mutator, and the
\* clone updated in place from the mapping
C3_Witness ==
    /\ lastOp.op = "update_from_dict"
    /\ history[lastOp.self].parent /= 0
    /\ builders[lastOp.self].script = inputs[lastOp.inp]["script"]
    /\ LET p == history[lastOp.self].parent
       IN /\ history[p].parent = 0
          /\ view(Heap, p) /= view(Heap, lastOp.self)
          /\ \E o \in Ids \ {p, lastOp.self} :
                /\ history[o].parent = 0
                /\ builders[o].script = builders[p].script
                /\ view(Heap, o) /= view(Heap, p)

\* C4: the builder returned by script(**kwargs) holds exactly kwargs as its
\* script mapping, whatever the receiver's mapping was
C4_ScriptReplaces ==
    lastOp.op = "script" => ScriptOf(Heap, lastOp.ret) = lastOp.kw

C4_Witness ==
    /\ lastOp.op = "script"
    /\ lastOp.kw /= EmptyDict
    /\ ScriptOf(Heap, lastOp.self) /= EmptyDict
    /\ DOMAIN ScriptOf(Heap, lastOp.self) \cap DOMAIN lastOp.kw = {}
    /\ history[lastOp.self].parent /= 0

\* C5: n >= 1 filter/exclude calls chained from an empty builder serialize to one
\* bool node with only a filter clause of n entries in call order
Entry(call) ==
    IF call[1] = "filter" THEN WTerm(call[2])
    ELSE WBool([c \in {"must_not"} |-> <<WTerm(call[2])>>])
C5_FilterChain ==
    \A b \in Ids :
        (history[b].from_empty /\ Len(history[b].calls) >= 1) =>
            /\ "query" \in DOMAIN Body(Heap, b)
            /\ Body(Heap, b)["query"] =
                 WBool([c \in {"filter"} |->
                          [i \in 1..Len(history[b].calls) |-> Entry(history[b].calls[i])]])

C5_Witness ==
    \E b \in Ids :
        /\ history[b].from_empty
        /\ Len(history[b].calls) = 2
        /\ history[b].calls[1][1] = "exclude"
        /\ history[b].calls[2][1] = "filter"

\* C6 as stated: exclude(t) combines negate(wrap_as_filter(t)) into the query
C6_ExcludeNegatesWrapper ==
    lastOp.op = "exclude" =>
        proxy_get(Heap, builders[lastOp.ret].query_proxy) =
            combine(proxy_get(Heap, builders[lastOp.self].query_proxy),
                    negate(wrap_as_filter(Term(lastOp.term))))

\* C6 amended: exclude(t) combines wrap_as_filter(negate(t)) into the query
C6_ExcludeWrapsNegation ==
    lastOp.op = "exclude" =>
        proxy_get(Heap, builders[lastOp.ret].query_proxy) =
            combine(proxy_get(Heap, builders[lastOp.self].query_proxy),
                    wrap_as_filter(negate(Term(lastOp.term))))

C6_Witness ==
    /\ lastOp.op = "exclude"
    /\ proxy_get(Heap, builders[lastOp.self].query_proxy).kind = "bool"

\* C7: an instance that holds a cached response holds one after every operation
C7_ExecutedStaysExecuted ==
    [][\A b \in Ids : builders[b].response.set => builders'[b].response.set]_vars

C7_Witness ==
    /\ lastOp.op = "update_from_dict"
    /\ builders[lastOp.self].response.set
    /\ history[lastOp.self].parent = 0
    /\ Len(builders) = 2
    /\ transport.outcome \in Errors

\* C8: a failed execute() made exactly one transport call, raised the
\* collaborator's error and left the cached response as it was
C8_FailedExecute ==
    [][(lastOp'.op = "execute" /\ lastOp'.raised /= "none") =>
          /\ transport'.calls = 1
          /\ lastOp'.raised = transport'.outcome
          /\ builders'[lastOp'.self].response = builders[lastOp'.self].response]_vars

C8_Witness ==
    /\ lastOp.op = "execute"
    /\ lastOp.raised \in Errors
    /\ builders[lastOp.self].response.set

\* C9 as stated: without extras, "query" is present exactly when the held query
\* is not the empty/match-all query, "script" exactly when the mapping is non-empty
C9_QueryKeyIffNotMatchAll ==
    \A b \in Ids :
        ExtraOf(Heap, b) = EmptyDict =>
            /\ "query" \in DOMAIN Body(Heap, b)
                 <=> proxy_get(Heap, builders[b].query_proxy) /= MatchAll
            /\ "script" \in DOMAIN Body(Heap, b) <=> ScriptOf(Heap, b) /= EmptyDict

\* C9 amended: without extras, "query" is present exactly when a query has been
\* set on the builder (a match_all query loaded by from_dict included), "script"
\* exactly when the mapping is non-empty
C9_QueryKeyIffSet ==
    \A b \in Ids :
        ExtraOf(Heap, b) = EmptyDict =>
            /\ "query" \in DOMAIN Body(Heap, b)
                 <=> proxies[builders[b].query_proxy].proxied /= None
            /\ "script" \in DOMAIN Body(Heap, b) <=> ScriptOf(Heap, b) /= EmptyDict

C9_Witness ==
    /\ lastOp.op = "from_dict"
    /\ ExtraOf(Heap, lastOp.ret) = EmptyDict
    /\ proxies[builders[lastOp.ret].query_proxy].proxied = MatchAll
    /\ \E b \in Ids : ExtraOf(Heap, b) = EmptyDict /\ ScriptOf(Heap, b) = EmptyDict
                      /\ proxies[builders[b].query_proxy].proxied = None

\* C10 as stated: from_dict(d).to_dict() equals d for every wire mapping d, and
\* d is unchanged
C10_WireRoundTripAll ==
    [][lastOp'.op = "from_dict" =>
          /\ Body(HeapNext, lastOp'.ret) = input_value(Heap, lastOp'.inp)
          /\ input_value(HeapNext, lastOp'.inp) = input_value(Heap, lastOp'.inp)]_vars

\* a serialized query as Query.to_dict writes it: no clause with an empty list
RECURSIVE IsSerialized(_)
IsSerialized(w) ==
    w.w = "bool" =>
        \A c \in DOMAIN w.clauses :
            /\ Len(w.clauses[c]) >= 1
            /\ \A i \in 1..Len(w.clauses[c]) : IsSerialized(w.clauses[c][i])

\* C10 amended: the same, for every wire mapping whose "script" entry, when
\* present, is non-empty and whose "query" entry, when present, is a serialized
\* query (no clause with an empty list)
C10_WireRoundTrip ==
    [][(/\ lastOp'.op = "from_dict"
        /\ "script" \in DOMAIN inputs[lastOp'.inp]
             => dicts[inputs[lastOp'.inp]["script"]] /= EmptyDict
        /\ "query" \in DOMAIN inputs[lastOp'.inp]
             => IsSerialized(inputs[lastOp'.inp]["query"])) =>
          /\ Body(HeapNext, lastOp'.ret) = input_value(Heap, lastOp'.inp)
          /\ input_value(HeapNext, lastOp'.inp) = input_value(Heap, lastOp'.inp)]_vars

C10_Witness ==
    /\ lastOp.op = "from_dict"
    /\ DOMAIN inputs[lastOp.inp] = {"query", "script", "size"}
    /\ Body(Heap, lastOp.ret) = input_value(Heap, lastOp.inp)

====
